---- MODULE Spec2Model ----
(***************************************************************************)
(* Model of script.py: build_graph and traverse_graph (the breadth-first   *)
(* policy-propagation traverser) of the JSON server builder.               *)
(*                                                                         *)
(* Python dicts are functions whose DOMAIN is the set of keys present, so  *)
(* `"k" in d` is "k" \in DOMAIN d.  The per-path flag dicts are mutable    *)
(* objects: they live in `heap` and the queue holds references to them.    *)
(***************************************************************************)
EXTENDS Naturals, Sequences, FiniteSets, TLC

\* ------------------------------------------------------------------ bounds

\* Most loop iterations the model follows of a traversal that never ends (a
\* cycle can be reached from an entry node); every other traversal is followed
\* to its end.
MaxSteps == 6

\* Most edges (target entries) in the whole input node list.
MaxEdges == 3

\* The longest node list given to build_graph alone.
MaxRecords == 3

\* ------------------------------------------------------------------ inputs

\* JSON null / Python None.
None == "null"

\* The ids of the input node records, in input order.
IdSeq == <<"n1", "n2", "n3">>

Ids == {IdSeq[i] : i \in 1..Len(IdSeq)}

\* A dict with no keys.
EmptyDict == [k \in {} |-> TRUE]

\* Node records without their id and target: a plain entry node (null
\* source, no properties), an entry node without a source key that is a
\* public route, a middleware node, an inheriting route node, and a route
\* node of type "entry" that declares its own flags.
NodeKinds ==
    { [source |-> None],
      [name |-> "Out",
       properties |-> [endpoint |-> "/signout", method |-> "get",
                       admin_required |-> TRUE]],
      [source |-> "n1",
       properties |-> [auth_required |-> FALSE, admin_required |-> TRUE,
                       allowed_origins |-> "*", log_requests |-> TRUE,
                       endpoint |-> "/user"]],
      [source |-> "n1",
       properties |-> [endpoint |-> "/home", method |-> "GET",
                       log_requests |-> FALSE]],
      [source |-> "n1", name |-> "Home",
       properties |-> [type |-> "entry", endpoint |-> "/home",
                       method |-> "Post", auth_required |-> TRUE,
                       admin_required |-> FALSE]] }

\* The values of a node's "target" with n edges: absent (no key), a scalar
\* id, or a list of two ids.
TargetsOfLen(n) ==
    IF n = 0 THEN {EmptyDict}
    ELSE IF n = 1 THEN {[target |-> [list |-> FALSE, v |-> t]] : t \in Ids}
    ELSE {[target |-> [list |-> TRUE, v |-> <<t, u>>]] : t \in Ids, u \in Ids}

\* The kinds that decide how the queue evolves: an entry node, a node that
\* is none, and an entry node by its type.
QueueKinds ==
    {k \in NodeKinds :
        \/ DOMAIN k = {"source"}
        \/ /\ "properties" \in DOMAIN k
           /\ "endpoint" \in DOMAIN k.properties
           /\ k.properties.endpoint = "/home"}

\* A node record: a kind, its id and its target.
NodesWithId(kinds, id, n) ==
    {k @@ [id |-> id] @@ t : k \in kinds, t \in TargetsOfLen(n)}

\* How many edges each of n records carries: at most MaxEdges in all.
EdgeCounts(n) ==
    {x \in [1..n -> 0..2] :
        (IF n = 3 THEN x[1] + x[2] + x[3] ELSE x[1] + x[2]) <= MaxEdges}

\* The input node lists: two or three records with distinct ids (with two
\* records the id "n3" is a dangling target) and at most MaxEdges edges.
IsNodeList(kinds, ns) ==
    \E n \in {2, 3} : \E e \in EdgeCounts(n) :
        \E a \in NodesWithId(kinds, "n1", e[1]) :
            \E b \in NodesWithId(kinds, "n2", e[2]) :
                IF n = 2 THEN ns = <<a, b>>
                ELSE \E c \in NodesWithId(kinds, "n3", e[3]) : ns = <<a, b, c>>

\* ------------------------------------------------------------- build_graph

\* dict.get(key, default)
Get(d, key, default) == IF key \in DOMAIN d THEN d[key] ELSE default

\* d[key] = value
Put(d, key, value) ==
    [k \in DOMAIN d \cup {key} |-> IF k = key THEN value ELSE d[k]]

\* The ids a node's target appends: the elements of a list, one scalar, none
\* when the target is absent or falsy.
TargetIds(node) ==
    IF "target" \notin DOMAIN node THEN <<>>
    ELSE IF node.target.list THEN node.target.v
    ELSE IF node.target.v = None THEN <<>>
    ELSE <<node.target.v>>

\* BuildStep that assigns the children of an id instead of appending to them.
BuildStepAssigns(g, node) ==
    [order    |-> IF node.id \in DOMAIN g.node_map THEN g.order
                  ELSE Append(g.order, node.id),
     node_map |-> Put(g.node_map, node.id, node),
     children |-> IF TargetIds(node) = <<>> THEN g.children
                  ELSE Put(g.children, node.id, TargetIds(node))]

\* One iteration of build_graph's loop over the nodes.
BuildStep(g, node) ==
    [order    |-> IF node.id \in DOMAIN g.node_map THEN g.order
                  ELSE Append(g.order, node.id),
     node_map |-> Put(g.node_map, node.id, node),
     children |-> IF TargetIds(node) = <<>> THEN g.children
                  ELSE Put(g.children, node.id,
                           Get(g.children, node.id, <<>>) \o TargetIds(node))]

RECURSIVE BuildFrom(_, _, _)
BuildFrom(g, nodes, i) ==
    IF i > Len(nodes) THEN g ELSE BuildFrom(BuildStep(g, nodes[i]), nodes, i + 1)

\* build_graph(nodes): the node index (with its key order) and the children.
build_graph(nodes) ==
    BuildFrom([order |-> <<>>, node_map |-> EmptyDict, children |-> EmptyDict],
              nodes, 1)

\* ---------------------------------------------------------- traverse_graph

VARIABLES
    nodes,         \* the input node list: config.get("nodes", [])
    io,            \* the files and the standard output of main
    node_map,      \* id -> node record
    node_order,    \* the keys of node_map in insertion order
    children,      \* id -> list of child ids
    routes,        \* endpoint -> route record
    global_flags,  \* [cors, logging]
    queue,         \* the deque of <<node id, reference to a flags dict>>
    heap,          \* reference -> flags dict [auth, admin]
    pc,            \* "start", "loop", "done", "error"
    run,           \* which call of traverse_graph this is
    first,         \* what the first call returned
    visits,        \* history: the loop iterations of this call
    qpath          \* history: for each queue entry, its path from an entry node

vars == <<nodes, io, node_map, node_order, children, routes, global_flags, queue,
          heap, pc, run, first, visits, qpath>>

Props(node) == Get(node, "properties", EmptyDict)

\* IsEntry with the test of the source inverted.
IsEntryNotNone(node) ==
    \/ Get(node, "source", None) # None
    \/ Get(Props(node), "type", None) = "entry"

\* node.get("source") is None or properties type == "entry"
IsEntry(node) ==
    \/ Get(node, "source", None) = None
    \/ Get(Props(node), "type", None) = "entry"

\* EntryNodes found by the source alone, the type not looked at.
EntryNodesBySource ==
    SelectSeq(node_order, LAMBDA id : Get(node_map[id], "source", None) = None)

\* The entry nodes in node_map.values() order.
EntryNodes == SelectSeq(node_order, LAMBDA id : IsEntry(node_map[id]))

\* The dict literal {"auth": False, "admin": False}.
NoFlags == [auth |-> FALSE, admin |-> FALSE]

\* One dict object, made once, shared by every seeded entry of every call.
SeedRefsShared(h, n) == [i \in 1..n |-> 1]

\* A new dict object for each seeded entry node.
SeedRefs(h, n) == [i \in 1..n |-> Len(h) + i]

\* str.lower() on the method names of the inputs.
Lower(s) ==
    CASE s = "GET" -> "get"
      [] s = "Post" -> "post"
      [] s = "POST" -> "post"
      [] OTHER -> s

\* UpdateGlobal assigning the node's own settings instead of raising.
UpdateGlobalAssign(gf, props) ==
    [cors    |-> "allowed_origins" \in DOMAIN props,
     logging |-> Get(props, "log_requests", FALSE)]

\* UpdateGlobal done only for a node that defines a route.
UpdateGlobalRouteOnly(gf, props) ==
    IF "endpoint" \in DOMAIN props /\ "method" \in DOMAIN props
    THEN [cors    |-> IF "allowed_origins" \in DOMAIN props THEN TRUE ELSE gf.cors,
          logging |-> IF Get(props, "log_requests", FALSE) THEN TRUE
                      ELSE gf.logging]
    ELSE gf

\* Lines 53-56: the global flags after a node's properties.
UpdateGlobal(gf, props) ==
    [cors    |-> IF "allowed_origins" \in DOMAIN props THEN TRUE ELSE gf.cors,
     logging |-> IF Get(props, "log_requests", FALSE) THEN TRUE ELSE gf.logging]

\* Override that lets a public route clear the path's flags as well.
OverrideExemptClears(flags, props) ==
    IF /\ "endpoint" \in DOMAIN props
       /\ "method" \in DOMAIN props
       /\ props.endpoint \in {"/login", "/signup", "/signout"}
    THEN [auth |-> FALSE, admin |-> FALSE]
    ELSE [auth  |-> Get(props, "auth_required", flags.auth),
          admin |-> Get(props, "admin_required", flags.admin)]

\* Override that can only raise a flag: ORs the declared value in.
OverrideOr(flags, props) ==
    [auth  |-> flags.auth \/ Get(props, "auth_required", FALSE),
     admin |-> flags.admin \/ Get(props, "admin_required", FALSE)]

\* Lines 60-63: the path's flags after the node's own override.
Override(flags, props) ==
    [auth  |-> Get(props, "auth_required", flags.auth),
     admin |-> Get(props, "admin_required", flags.admin)]

\* Line 66
IsRoute(props) == "endpoint" \in DOMAIN props /\ "method" \in DOMAIN props

PublicEndpoints == {"/login", "/signup", "/signout"}

\* AppliedFlags from the node's own declarations alone, nothing inherited.
AppliedDeclaredOnly(props, flags) ==
    IF props.endpoint \in PublicEndpoints
    THEN [auth |-> FALSE, admin |-> FALSE]
    ELSE [auth  |-> Get(props, "auth_required", FALSE),
          admin |-> Get(props, "admin_required", FALSE)]

\* AppliedFlags without the public-endpoint branch.
AppliedNoExemption(props, flags) ==
    [auth  |-> Get(props, "auth_required", flags.auth),
     admin |-> Get(props, "admin_required", flags.admin)]

\* Lines 71-78
AppliedFlags(props, flags) ==
    IF props.endpoint \in PublicEndpoints
    THEN [auth |-> FALSE, admin |-> FALSE]
    ELSE [auth  |-> Get(props, "auth_required", flags.auth),
          admin |-> Get(props, "admin_required", flags.admin)]

\* Merge where a later visit overwrites the stored flags.
MergeLastWins(rt, endpoint, method, name, applied) ==
    IF endpoint \in DOMAIN rt
    THEN [rt EXCEPT ![endpoint].auth = applied.auth,
                    ![endpoint].admin = applied.admin]
    ELSE Put(rt, endpoint, [method |-> method, name |-> name,
                            auth |-> applied.auth, admin |-> applied.admin])

\* Merge that ANDs the applied flags into the stored ones.
MergeAnd(rt, endpoint, method, name, applied) ==
    IF endpoint \in DOMAIN rt
    THEN [rt EXCEPT ![endpoint].auth = rt[endpoint].auth /\ applied.auth,
                    ![endpoint].admin = rt[endpoint].admin /\ applied.admin]
    ELSE Put(rt, endpoint, [method |-> method, name |-> name,
                            auth |-> applied.auth, admin |-> applied.admin])

\* Merge where a later visit also replaces the method and the name.
MergeReplaces(rt, endpoint, method, name, applied) ==
    IF endpoint \in DOMAIN rt
    THEN [rt EXCEPT ![endpoint].auth = rt[endpoint].auth \/ applied.auth,
                    ![endpoint].admin = rt[endpoint].admin \/ applied.admin,
                    ![endpoint].method = method,
                    ![endpoint].name = name]
    ELSE Put(rt, endpoint, [method |-> method, name |-> name,
                            auth |-> applied.auth, admin |-> applied.admin])

\* Lines 80-84
Merge(rt, endpoint, method, name, applied) ==
    IF endpoint \in DOMAIN rt
    THEN [rt EXCEPT ![endpoint].auth = rt[endpoint].auth \/ applied.auth,
                    ![endpoint].admin = rt[endpoint].admin \/ applied.admin]
    ELSE Put(rt, endpoint, [method |-> method, name |-> name,
                            auth |-> applied.auth, admin |-> applied.admin])

\* Lines 66-84
Resolve(rt, node, flags) ==
    IF IsRoute(Props(node))
    THEN Merge(rt, Props(node).endpoint, Lower(Props(node).method),
               Get(node, "name", "Unnamed Route"),
               AppliedFlags(Props(node), flags))
    ELSE rt

\* FanOut without flags.copy(): every child shares the parent's dict.
FanOutShared(h, q, ref, kids) ==
    [heap  |-> h,
     queue |-> q \o [i \in 1..Len(kids) |-> <<kids[i], ref>>]]

\* Lines 87-89: each child is enqueued with its own copy of the flags.
FanOut(h, q, ref, kids) ==
    [heap  |-> h \o [i \in 1..Len(kids) |-> h[ref]],
     queue |-> q \o [i \in 1..Len(kids) |-> <<kids[i], Len(h) + i>>]]

\* The set of the ids that the node id lists as children.
ChildSet(id) ==
    LET kids == Get(children, id, <<>>) IN {kids[i] : i \in 1..Len(kids)}

\* The ids reached from the ids of S along the edges, S included.
RECURSIVE ReachFrom(_)
ReachFrom(S) ==
    LET T == S \cup UNION {ChildSet(id) : id \in S}
    IN IF T = S THEN S ELSE ReachFrom(T)

\* The ids the traversal dequeues if it runs on: the entry nodes and all that
\* is reached from them.
EntryReach == ReachFrom({EntryNodes[i] : i \in 1..Len(EntryNodes)})

\* id lies on a directed cycle.
OnCycle(id) == id \in ReachFrom(ChildSet(id))

\* The queue can never drain: a cycle is reached from an entry node.
NeverDrains == \E id \in EntryReach : OnCycle(id)

\* Kids with a visited set: the children neither processed nor queued yet.
KidsUnseen(cur_id) ==
    SelectSeq(Get(children, cur_id, <<>>),
              LAMBDA c : /\ c # cur_id
                         /\ \A i \in 1..Len(visits) : visits[i].id # c
                         /\ \A i \in 1..Len(queue) : queue[i][1] # c)

\* Kids without repeats: each child id once, at its first place.
KidsDistinct(cur_id) ==
    LET kids == Get(children, cur_id, <<>>)
    IN SelectSeq([i \in 1..Len(kids) |->
                     IF \E j \in 1..(i - 1) : kids[j] = kids[i] THEN None ELSE kids[i]],
                 LAMBDA c : c # None)

\* Line 87: children.get(cur_id, []).
Kids(cur_id) == Get(children, cur_id, <<>>)

\* The loop iterations followed (see MaxSteps).
Followed == IF Len(visits) < MaxSteps THEN TRUE ELSE ~NeverDrains

\* main, lines 186-187: the graph is built from a node list of these kinds
\* and traverse_graph is about to be called.
InitOver(kinds) ==
    /\ IsNodeList(kinds, nodes)
    /\ io = [config |-> "nodes", server |-> <<>>, printed |-> <<>>]
    /\ LET g == build_graph(nodes)
       IN /\ node_map = g.node_map
          /\ node_order = g.order
          /\ children = g.children
    /\ routes = EmptyDict
    /\ global_flags = [cors |-> FALSE, logging |-> FALSE]
    /\ queue = <<>>
    /\ heap = <<>>
    /\ pc = "start"
    /\ run = 1
    /\ first = EmptyDict
    /\ visits = <<>>
    /\ qpath = <<>>

Init == InitOver(NodeKinds)

\* Lines 35-45: empty results, the entry nodes seed the queue.
Begin ==
    /\ pc = "start"
    /\ routes' = EmptyDict
    /\ global_flags' = [cors |-> FALSE, logging |-> FALSE]
    /\ LET n == Len(EntryNodes)
           refs == SeedRefs(heap, n)
       IN /\ queue' = [i \in 1..n |-> <<EntryNodes[i], refs[i]>>]
          /\ heap' = [r \in 1..Len(heap) + n |->
                         IF r > Len(heap) THEN NoFlags ELSE heap[r]]
          /\ qpath' = [i \in 1..n |-> <<EntryNodes[i]>>]
    /\ visits' = <<>>
    /\ pc' = "loop"
    /\ UNCHANGED <<nodes, io, node_map, node_order, children, run, first>>

\* Visit with queue.pop() for queue.popleft(): the newest entry is taken.
VisitNewest ==
    /\ pc = "loop"
    /\ queue # <<>>
    /\ Followed
    /\ queue[Len(queue)][1] \in DOMAIN node_map
    /\ LET cur_id == queue[Len(queue)][1]
           ref    == queue[Len(queue)][2]
           path   == qpath[Len(qpath)]
           node   == node_map[cur_id]
           props  == Props(node)
           flags  == Override(heap[ref], props)
           h1     == [heap EXCEPT ![ref] = flags]
           kids   == Kids(cur_id)
           out    == FanOut(h1, SubSeq(queue, 1, Len(queue) - 1), ref, kids)
       IN /\ global_flags' = UpdateGlobal(global_flags, props)
          /\ routes' = Resolve(routes, node, flags)
          /\ heap' = out.heap
          /\ queue' = out.queue
          /\ qpath' = SubSeq(qpath, 1, Len(qpath) - 1) \o
                      [i \in 1..Len(kids) |-> Append(path, kids[i])]
          /\ visits' = Append(visits,
                 [id |-> cur_id, path |-> path, inherited |-> heap[ref],
                  flags |-> flags, route |-> IsRoute(props),
                  applied |-> IF IsRoute(props) THEN AppliedFlags(props, flags)
                              ELSE NoFlags])
    /\ UNCHANGED <<nodes, io, node_map, node_order, children, pc, run, first>>

\* Lines 48-89: one iteration of the while loop on a node of the index.
Visit ==
    /\ pc = "loop"
    /\ queue # <<>>
    /\ Followed
    /\ Head(queue)[1] \in DOMAIN node_map
    /\ LET cur_id == Head(queue)[1]
           ref    == Head(queue)[2]
           node   == node_map[cur_id]
           props  == Props(node)
           flags  == Override(heap[ref], props)
           h1     == [heap EXCEPT ![ref] = flags]
           kids   == Kids(cur_id)
           out    == FanOut(h1, Tail(queue), ref, kids)
       IN /\ global_flags' = UpdateGlobal(global_flags, props)
          /\ routes' = Resolve(routes, node, flags)
          /\ heap' = out.heap
          /\ queue' = out.queue
          /\ qpath' = Tail(qpath) \o
                      [i \in 1..Len(kids) |-> Append(Head(qpath), kids[i])]
          /\ visits' = Append(visits,
                 [id |-> cur_id, path |-> Head(qpath), inherited |-> heap[ref],
                  flags |-> flags, route |-> IsRoute(props),
                  applied |-> IF IsRoute(props) THEN AppliedFlags(props, flags)
                              ELSE NoFlags])
    /\ UNCHANGED <<nodes, io, node_map, node_order, children, pc, run, first>>

\* Lines 48-49: the dequeued id is no key of node_map: KeyError.
VisitMissing ==
    /\ pc = "loop"
    /\ queue # <<>>
    /\ Followed
    /\ Head(queue)[1] \notin DOMAIN node_map
    /\ queue' = Tail(queue)
    /\ qpath' = Tail(qpath)
    /\ pc' = "error"
    /\ UNCHANGED <<nodes, io, node_map, node_order, children, routes, global_flags,
                   heap, run, first, visits>>

\* A loop that tests nothing: popleft() on the empty deque raises IndexError.
ReturnRaises ==
    /\ pc = "loop"
    /\ queue = <<>>
    /\ pc' = "error"
    /\ UNCHANGED <<nodes, io, node_map, node_order, children, routes, global_flags,
                   queue, heap, run, first, visits, qpath>>

\* Lines 47 and 91: the queue is empty, the results are returned.
Return ==
    /\ pc = "loop"
    /\ queue = <<>>
    /\ pc' = "done"
    /\ UNCHANGED <<nodes, io, node_map, node_order, children, routes, global_flags,
                   queue, heap, run, first, visits, qpath>>

Next == Begin \/ Visit \/ VisitMissing \/ Return

Spec == Init /\ [][Next]_vars

\* The node lists of the kinds that decide how the queue evolves.
InitLive == InitOver(QueueKinds)

\* The interpreter runs the single thread on: a step that can be taken is taken.
SpecLive == InitLive /\ [][Next]_vars /\ WF_vars(Next)

\* traverse_graph is called a second time on the same node_map and children.
Rerun ==
    /\ pc = "done"
    /\ run = 1
    /\ first' = [routes |-> routes, global_flags |-> global_flags]
    /\ run' = 2
    /\ pc' = "start"
    /\ UNCHANGED <<nodes, io, node_map, node_order, children, routes, global_flags,
                   queue, heap, visits, qpath>>

NextTwice == Next \/ Rerun

SpecTwice == Init /\ [][NextTwice]_vars

\* ------------------------------------------------------------------- main

\* main is entered: ./config.json is absent, holds no "nodes" key, or holds
\* one, whose value is empty or a node list; nothing is built yet.
InitMain ==
    /\ \/ /\ io = [config |-> "absent", server |-> <<>>, printed |-> <<>>]
          /\ nodes = <<>>
       \/ /\ io = [config |-> "no nodes", server |-> <<>>, printed |-> <<>>]
          /\ nodes = <<>>
       \/ /\ io = [config |-> "nodes", server |-> <<>>, printed |-> <<>>]
          /\ (nodes = <<>> \/ IsNodeList(QueueKinds, nodes))
    /\ node_map = EmptyDict
    /\ node_order = <<>>
    /\ children = EmptyDict
    /\ routes = EmptyDict
    /\ global_flags = [cors |-> FALSE, logging |-> FALSE]
    /\ queue = <<>>
    /\ heap = <<>>
    /\ pc = "main"
    /\ run = 1
    /\ first = EmptyDict
    /\ visits = <<>>
    /\ qpath = <<>>

\* Lines 176-178: the configuration file does not exist.
MainNoConfig ==
    /\ pc = "main"
    /\ io.config = "absent"
    /\ io' = [io EXCEPT !.printed =
                  Append(@, "Error: ./config.json does not exist.")]
    /\ pc' = "aborted"
    /\ UNCHANGED <<nodes, node_map, node_order, children, routes, global_flags,
                   queue, heap, run, first, visits, qpath>>

\* Lines 180-181: the configuration is loaded, nodes = config.get("nodes", []).
MainLoad ==
    /\ pc = "main"
    /\ io.config # "absent"
    /\ pc' = "loaded"
    /\ UNCHANGED <<nodes, io, node_map, node_order, children, routes,
                   global_flags, queue, heap, run, first, visits, qpath>>

\* MainNoNodes without its return: the message is printed and main goes on.
MainNoNodesGoesOn ==
    /\ pc = "loaded"
    /\ nodes = <<>>
    /\ io' = [io EXCEPT !.printed =
                  Append(@, "No nodes found in the configuration.")]
    /\ pc' = "start"
    /\ UNCHANGED <<nodes, node_map, node_order, children, routes, global_flags,
                   queue, heap, run, first, visits, qpath>>

\* Lines 182-184: no nodes.
MainNoNodes ==
    /\ pc = "loaded"
    /\ nodes = <<>>
    /\ io' = [io EXCEPT !.printed =
                  Append(@, "No nodes found in the configuration.")]
    /\ pc' = "aborted"
    /\ UNCHANGED <<nodes, node_map, node_order, children, routes, global_flags,
                   queue, heap, run, first, visits, qpath>>

\* Line 186: node_map, children = build_graph(nodes).
MainBuild ==
    /\ pc = "loaded"
    /\ nodes # <<>>
    /\ LET g == build_graph(nodes)
       IN /\ node_map' = g.node_map
          /\ node_order' = g.order
          /\ children' = g.children
    /\ pc' = "start"
    /\ UNCHANGED <<nodes, io, routes, global_flags, queue, heap, run, first,
                   visits, qpath>>

\* Line 188: generate_server_js writes ./server.js from the routes and the
\* global flags that traverse_graph returned, and reports it.
Generate ==
    /\ pc = "done"
    /\ io' = [io EXCEPT
                  !.server = <<[routes |-> routes, global_flags |-> global_flags]>>,
                  !.printed = Append(@, "Generated ./server.js successfully.")]
    /\ pc' = "exit"
    /\ UNCHANGED <<nodes, node_map, node_order, children, routes, global_flags,
                   queue, heap, run, first, visits, qpath>>

NextMain ==
    MainNoConfig \/ MainLoad \/ MainNoNodes \/ MainBuild \/ Next \/ Generate

SpecMain == InitMain /\ [][NextMain]_vars

\* ------------------------------------------------------ build_graph alone

\* The values of "target" that build_graph tells apart: absent, a falsy
\* scalar, a scalar id, an empty list, lists with distinct and repeated ids.
BuildTargets ==
    {EmptyDict,
     [target |-> [list |-> FALSE, v |-> None]],
     [target |-> [list |-> FALSE, v |-> "n2"]],
     [target |-> [list |-> TRUE, v |-> <<>>]],
     [target |-> [list |-> TRUE, v |-> <<"n1", "n2">>]],
     [target |-> [list |-> TRUE, v |-> <<"n2", "n2">>]]}

\* Node records whose ids may repeat in the list.
BuildRecords ==
    {k @@ [id |-> id] @@ t :
        k \in {x \in NodeKinds : "source" \notin DOMAIN x \/ x.source = None},
        id \in {"n1", "n2"}, t \in BuildTargets}

\* main has loaded a configuration with one to MaxRecords node records.
InitBuild ==
    /\ \E n \in 1..MaxRecords : nodes \in [1..n -> BuildRecords]
    /\ io = [config |-> "nodes", server |-> <<>>, printed |-> <<>>]
    /\ node_map = EmptyDict
    /\ node_order = <<>>
    /\ children = EmptyDict
    /\ routes = EmptyDict
    /\ global_flags = [cors |-> FALSE, logging |-> FALSE]
    /\ queue = <<>>
    /\ heap = <<>>
    /\ pc = "loaded"
    /\ run = 1
    /\ first = EmptyDict
    /\ visits = <<>>
    /\ qpath = <<>>

SpecBuild == InitBuild /\ [][MainBuild]_vars

\* ------------------------------------------------------------------ paths

Last(p) == p[Len(p)]

Front(p) == SubSeq(p, 1, Len(p) - 1)

\* The properties of the node with this id.
PropsOf(id) == Props(node_map[id])

\* The paths that extend the paths of the frontier along the edges, the
\* frontier included (finite when no cycle is reached).
RECURSIVE PathsFrom(_)
PathsFrom(frontier) ==
    IF frontier = {} THEN {}
    ELSE frontier \cup
         PathsFrom(UNION {{Append(p, c) : c \in ChildSet(Last(p))} : p \in frontier})

\* Every path from an entry node along the edges.
EntryPaths == PathsFrom({<<EntryNodes[i]>> : i \in 1..Len(EntryNodes)})

\* The value of `key` declared by the closest node of path[1..i] that
\* declares it, FALSE when none does.
RECURSIVE NearestDeclared(_, _, _)
NearestDeclared(path, i, key) ==
    IF i = 0 THEN FALSE
    ELSE IF key \in DOMAIN PropsOf(path[i]) THEN PropsOf(path[i])[key]
    ELSE NearestDeclared(path, i - 1, key)

\* The flags a path carries after the overrides of all its nodes, in order.
RECURSIVE FlagsAlong(_)
FlagsAlong(p) ==
    IF p = <<>> THEN NoFlags
    ELSE Override(FlagsAlong(Front(p)), PropsOf(Last(p)))

\* The loop iterations of this call that resolved a route for endpoint e.
RouteVisits(e) ==
    {i \in 1..Len(visits) : visits[i].route /\ PropsOf(visits[i].id).endpoint = e}

\* ----------------------------------------------------------------- claims

\* C1: when traverse_graph has finished, every entry-to-node path was visited,
\* the route table holds exactly the endpoints of the visited route nodes, and
\* for each of them the stored auth (admin) is the logical OR of the applied
\* auth (admin) of all the visits of the route nodes declaring that endpoint.
OrMerge ==
    pc = "done" =>
        /\ {visits[i].path : i \in 1..Len(visits)} = EntryPaths
        /\ DOMAIN routes =
               {PropsOf(visits[i].id).endpoint :
                   i \in {j \in 1..Len(visits) : visits[j].route}}
        /\ \A e \in DOMAIN routes :
               /\ routes[e].auth = (\E i \in RouteVisits(e) : visits[i].applied.auth)
               /\ routes[e].admin = (\E i \in RouteVisits(e) : visits[i].applied.admin)

\* An endpoint was resolved on visits of two nodes: the last visit applied no
\* auth, another applied no admin, yet both are stored.
OrMergeWitness ==
    /\ pc = "done"
    /\ \E e \in DOMAIN routes : \E i \in RouteVisits(e) : \E j \in RouteVisits(e) :
          /\ i < j
          /\ \A k \in RouteVisits(e) : k <= j
          /\ visits[i].id # visits[j].id
          /\ visits[i].applied.auth /\ ~visits[j].applied.auth
          /\ ~visits[i].applied.admin /\ visits[j].applied.admin
          /\ routes[e].auth /\ routes[e].admin

\* C2: in every state, a route record for /login, /signup or /signout has
\* auth = FALSE and admin = FALSE.
PublicRoutesOpen ==
    \A e \in DOMAIN routes :
        e \in {"/login", "/signup", "/signout"} =>
            ~routes[e].auth /\ ~routes[e].admin

\* A public route was reached on two paths, one of them carrying auth and
\* admin after the node's own admin_required: true.
PublicRoutesOpenWitness ==
    /\ pc = "done"
    /\ "/signout" \in DOMAIN routes
    /\ Cardinality(RouteVisits("/signout")) >= 2
    /\ \E i \in RouteVisits("/signout") :
          /\ Len(visits[i].path) >= 2
          /\ visits[i].inherited.auth
          /\ "admin_required" \in DOMAIN PropsOf(visits[i].id)
          /\ visits[i].flags.auth /\ visits[i].flags.admin

\* C3: on every visit, the flags in force after the node's own override are,
\* for auth, the auth_required of the closest node of the path (the node
\* included) that declares it, FALSE if none does; likewise for admin.
OverrideNearest ==
    \A i \in 1..Len(visits) :
        LET v == visits[i] IN
        /\ v.flags.auth = NearestDeclared(v.path, Len(v.path), "auth_required")
        /\ v.flags.admin = NearestDeclared(v.path, Len(v.path), "admin_required")

\* A node that declares nothing was visited below a node declaring
\* auth_required: false, itself below a node declaring auth_required: true.
OverrideNearestWitness ==
    \E i \in 1..Len(visits) :
        LET v == visits[i] IN
        /\ Len(v.path) = 3
        /\ "auth_required" \in DOMAIN PropsOf(v.path[1])
        /\ PropsOf(v.path[1]).auth_required
        /\ "auth_required" \in DOMAIN PropsOf(v.path[2])
        /\ ~PropsOf(v.path[2]).auth_required
        /\ "auth_required" \notin DOMAIN PropsOf(v.path[3])
        /\ ~v.flags.auth
        /\ v.flags.admin

\* C4: the flags of every queue entry, and the flags every visit started
\* with, are those of the overrides of the nodes above it on its own path, and
\* no two queue entries hold the same flags object.
BranchIsolation ==
    /\ \A i \in 1..Len(queue) : heap[queue[i][2]] = FlagsAlong(Front(qpath[i]))
    /\ \A i \in 1..Len(queue) : \A j \in 1..Len(queue) :
          i # j => queue[i][2] # queue[j][2]
    /\ \A i \in 1..Len(visits) : visits[i].inherited = FlagsAlong(Front(visits[i].path))

\* Child A of a node was visited and set admin, its sibling B, which has
\* children of its own, is still queued and carries no admin.
BranchIsolationWitness ==
    /\ pc = "loop"
    /\ visits # <<>>
    /\ LET a == Last(visits) IN
       /\ Len(a.path) >= 2
       /\ ~a.inherited.admin /\ a.flags.admin
       /\ \E i \in 1..Len(queue) :
             /\ Front(qpath[i]) = Front(a.path)
             /\ queue[i][1] # a.id
             /\ queue[i][1] \in DOMAIN children
             /\ ~heap[queue[i][2]].admin

\* C5: a dequeued child id that is no key of the node index raises no error,
\* leaves the route table and the global flags alone, enqueues nothing, and
\* the loop goes on.
DanglingInert ==
    [][(pc = "loop" /\ queue # <<>> /\ Head(queue)[1] \notin DOMAIN node_map)
         => /\ pc' = "loop"
            /\ queue' = Tail(queue)
            /\ routes' = routes
            /\ global_flags' = global_flags]_vars

\* C6 as stated: when traverse_graph has finished, a node with allowed_origins
\* anywhere in the node index means cors = TRUE.
CorsAnywhere ==
    pc = "done" =>
        ((\E id \in DOMAIN node_map : "allowed_origins" \in DOMAIN PropsOf(id))
            => global_flags.cors)

\* C6 amended: when traverse_graph has finished, a node with allowed_origins
\* that is an entry node or reached from one along the edges means
\* cors = TRUE, also when that node defines no route.
CorsReachable ==
    pc = "done" =>
        ((\E id \in EntryReach \cap DOMAIN node_map :
              "allowed_origins" \in DOMAIN PropsOf(id))
            => global_flags.cors)

\* The only node with allowed_origins is no route and no entry node, it is
\* reached as a child, and cors is set at the end.
CorsReachableWitness ==
    /\ pc = "done"
    /\ global_flags.cors
    /\ \E id \in EntryReach \cap DOMAIN node_map :
          /\ "allowed_origins" \in DOMAIN PropsOf(id)
          /\ ~IsRoute(PropsOf(id))
          /\ ~IsEntry(node_map[id])
          /\ \A other \in DOMAIN node_map \ {id} :
                "allowed_origins" \notin DOMAIN PropsOf(other)

\* C7: cors and logging start FALSE, and no step of a traversal takes either
\* from TRUE to FALSE.
GlobalMonotone ==
    /\ ~global_flags.cors /\ ~global_flags.logging
    /\ [][/\ global_flags.cors => global_flags'.cors
          /\ global_flags.logging => global_flags'.logging]_vars

\* Both flags are set at the end although the last node visited has no
\* allowed_origins and a falsy log_requests.
GlobalMonotoneWitness ==
    /\ pc = "done"
    /\ global_flags.cors /\ global_flags.logging
    /\ visits # <<>>
    /\ "allowed_origins" \notin DOMAIN PropsOf(Last(visits).id)
    /\ "log_requests" \in DOMAIN PropsOf(Last(visits).id)
    /\ ~PropsOf(Last(visits).id).log_requests

\* Every node has a non-null source and none has properties.type = "entry".
NoEntryNode ==
    \A id \in DOMAIN node_map :
        /\ "source" \in DOMAIN node_map[id]
        /\ node_map[id].source # None
        /\ \/ "properties" \notin DOMAIN node_map[id]
           \/ "type" \notin DOMAIN node_map[id].properties
           \/ node_map[id].properties.type # "entry"

\* C8: on a graph without entry node, traverse_graph visits nothing and
\* returns an empty route table and cors = FALSE, logging = FALSE.
NoEntryEmpty ==
    (pc = "done" /\ NoEntryNode) =>
        /\ visits = <<>>
        /\ routes = EmptyDict
        /\ global_flags = [cors |-> FALSE, logging |-> FALSE]

\* A finished traversal of a graph without entry node that has edges, a
\* route node, and a node with allowed_origins and log_requests.
NoEntryEmptyWitness ==
    /\ pc = "done"
    /\ NoEntryNode
    /\ children # EmptyDict
    /\ \E id \in DOMAIN node_map : IsRoute(PropsOf(id))
    /\ \E id \in DOMAIN node_map :
          /\ "allowed_origins" \in DOMAIN PropsOf(id)
          /\ Get(PropsOf(id), "log_requests", FALSE)

\* C9: the second call of traverse_graph on the same arguments returns the
\* route table and the global flags of the first, and no step changes the
\* node index, the nodes' properties or the children mapping.
Idempotent ==
    /\ []((pc = "done" /\ run = 2) =>
            /\ routes = first.routes
            /\ global_flags = first.global_flags)
    /\ [][/\ node_map' = node_map
          /\ node_order' = node_order
          /\ children' = children
          /\ nodes' = nodes]_vars

\* The second call has finished after three visits or more, and its route
\* table holds a route with a flag set and merged from two visits.
IdempotentWitness ==
    /\ pc = "done"
    /\ run = 2
    /\ Len(visits) >= 3
    /\ \E e \in DOMAIN routes :
          /\ routes[e].admin
          /\ Cardinality(RouteVisits(e)) >= 2
    /\ global_flags.cors

\* No node of the index lies on a directed cycle.
Acyclic == \A id \in DOMAIN node_map : ~OnCycle(id)

\* Every child id is a key of the node index.
NoDanglingEdge == \A id \in DOMAIN children : ChildSet(id) \subseteq DOMAIN node_map

\* C10: on a graph with no directed cycle and no dangling edge, the queue
\* eventually drains and traverse_graph returns.
Terminates ==
    (pc = "start" /\ Acyclic /\ NoDanglingEdge) ~> (pc = "done" /\ queue = <<>>)

\* A traversal of such a graph has returned after more loop iterations than
\* a traversal that never ends is followed for, having queued four entries.
TerminatesWitness ==
    /\ pc = "done"
    /\ Acyclic
    /\ NoDanglingEdge
    /\ Len(visits) > MaxSteps
    /\ Len(heap) >= Len(EntryNodes) + 3

\* C11: when the configuration file does not exist or the configuration has
\* no nodes, main reports it and returns: no graph is built, nothing is
\* traversed and the server file is not written.
AbortedNoOutput ==
    (io.config = "absent" \/ nodes = <<>>) =>
        /\ pc \in {"main", "loaded", "aborted"}
        /\ io.config = "absent" => pc # "loaded"
        /\ pc = "aborted" =>
              io.printed = <<IF io.config = "absent"
                             THEN "Error: ./config.json does not exist."
                             ELSE "No nodes found in the configuration.">>
        /\ pc # "aborted" => io.printed = <<>>
        /\ io.server = <<>>
        /\ node_map = EmptyDict /\ node_order = <<>> /\ children = EmptyDict
        /\ queue = <<>> /\ visits = <<>> /\ routes = EmptyDict

\* main has returned on a configuration without a "nodes" key, having
\* printed its message.
AbortedNoOutputWitness ==
    /\ pc = "aborted"
    /\ io.config = "no nodes"
    /\ io.printed = <<"No nodes found in the configuration.">>
    /\ io.server = <<>>

\* C12: the queue is first-in first-out and the traversal is breadth-first:
\* the queue holds its entries in the order they were enqueued, the depths of
\* the visits never decrease, and every queued entry is at the depth of the
\* last visit or one below it, the shallower entries first.
BreadthFirst ==
    /\ \A i \in 1..Len(queue) : \A j \in 1..Len(queue) :
          i < j => /\ queue[i][2] < queue[j][2]
                   /\ Len(qpath[i]) <= Len(qpath[j])
    /\ \A i \in 1..Len(visits) : \A j \in 1..Len(visits) :
          i < j => Len(visits[i].path) <= Len(visits[j].path)
    /\ \A i \in 1..Len(queue) :
          /\ visits # <<>> => Len(visits[Len(visits)].path) <= Len(qpath[i])
          /\ Len(qpath[i]) <= Len(qpath[1]) + 1

\* Two entry nodes seeded the queue: a node at depth 2 below the first and a
\* node at depth 2 below the second were both visited before a node at depth
\* 3 below the first.
BreadthFirstWitness ==
    \E i \in 1..Len(visits) : \E j \in 1..Len(visits) : \E k \in 1..Len(visits) :
        /\ i < j /\ j < k
        /\ Len(visits[i].path) = 2
        /\ Len(visits[j].path) = 2
        /\ Len(visits[k].path) = 3
        /\ visits[i].path[1] # visits[j].path[1]
        /\ visits[k].path[1] = visits[i].path[1]
        /\ visits[k].path[2] = visits[i].path[2]

\* The first loop iteration of this call that resolved a route for endpoint e.
FirstRouteVisit(e) ==
    CHOOSE i \in RouteVisits(e) : \A j \in RouteVisits(e) : i <= j

\* C13: in every state, the method and the name of a route record are the
\* lowercased method and the name ("Unnamed Route" when it has none) of the
\* route node that was dequeued first for that endpoint, whatever later
\* route nodes for the endpoint declare.
FirstWriterWins ==
    \A e \in DOMAIN routes :
        LET n == node_map[visits[FirstRouteVisit(e)].id] IN
        /\ RouteVisits(e) # {}
        /\ routes[e].method = Lower(n.properties.method)
        /\ routes[e].method \in {"get", "post"}
        /\ routes[e].name = IF "name" \in DOMAIN n THEN n.name ELSE "Unnamed Route"

\* /home was first resolved by the node named Home with method Post, and
\* later by another node without name and with method GET.
FirstWriterWinsWitness ==
    /\ pc = "done"
    /\ "/home" \in DOMAIN routes
    /\ routes["/home"].method = "post"
    /\ routes["/home"].name = "Home"
    /\ \E j \in RouteVisits("/home") :
          /\ j > FirstRouteVisit("/home")
          /\ "name" \notin DOMAIN node_map[visits[j].id]
          /\ PropsOf(visits[j].id).method = "GET"

\* C14: no step removes an endpoint from the route table or takes a stored
\* auth or admin from TRUE to FALSE, and a step inserts or changes at most the
\* record of the endpoint of the route node it dequeues.
RouteTableWidens ==
    [][/\ DOMAIN routes \subseteq DOMAIN routes'
       /\ \A e \in DOMAIN routes :
             /\ routes[e].auth => routes'[e].auth
             /\ routes[e].admin => routes'[e].admin
       /\ \A e \in DOMAIN routes' :
             (e \notin DOMAIN routes \/ routes'[e] # routes[e]) =>
                 /\ pc = "loop" /\ queue # <<>>
                 /\ Head(queue)[1] \in DOMAIN node_map
                 /\ IsRoute(PropsOf(Head(queue)[1]))
                 /\ PropsOf(Head(queue)[1]).endpoint = e]_vars

\* The visit just made widened a record: it applied admin and no auth to an
\* endpoint stored with auth and without admin, and the queue is not empty.
RouteTableWidensWitness ==
    /\ pc = "loop"
    /\ queue # <<>>
    /\ visits # <<>>
    /\ LET v == visits[Len(visits)] IN
       /\ v.route
       /\ v.applied.admin /\ ~v.applied.auth
       /\ \E i \in RouteVisits(PropsOf(v.id).endpoint) : i < Len(visits)
       /\ \A i \in RouteVisits(PropsOf(v.id).endpoint) :
             i < Len(visits) => (visits[i].applied.auth /\ ~visits[i].applied.admin)
       /\ routes[PropsOf(v.id).endpoint].auth
       /\ routes[PropsOf(v.id).endpoint].admin

\* C15: right after the seeding, the queue holds exactly one entry for each
\* node of the index whose source is absent or null or whose properties.type
\* is "entry" and none for any other node, each entry with flags
\* {auth: false, admin: false} in a flags object of its own.
EntrySeeding ==
    (pc = "loop" /\ visits = <<>>) =>
        /\ \A i \in 1..Len(queue) : queue[i][1] \in DOMAIN node_map
        /\ \A id \in DOMAIN node_map :
              LET n == node_map[id]
                  entry == \/ "source" \notin DOMAIN n
                           \/ n.source = None
                           \/ /\ "properties" \in DOMAIN n
                              /\ "type" \in DOMAIN n.properties
                              /\ n.properties.type = "entry"
              IN Cardinality({i \in 1..Len(queue) : queue[i][1] = id})
                     = IF entry THEN 1 ELSE 0
        /\ \A i \in 1..Len(queue) :
              /\ heap[queue[i][2]] = [auth |-> FALSE, admin |-> FALSE]
              /\ qpath[i] = <<queue[i][1]>>
              /\ \A j \in 1..Len(queue) : i # j => queue[i][2] # queue[j][2]

\* The queue was seeded with two of three nodes: one with a null source and
\* one with a source and type "entry".
EntrySeedingWitness ==
    /\ pc = "loop"
    /\ visits = <<>>
    /\ Len(queue) = 2
    /\ Cardinality(DOMAIN node_map) = 3
    /\ \E i \in 1..2 : Get(node_map[queue[i][1]], "source", None) = None
    /\ \E i \in 1..2 :
          /\ Get(node_map[queue[i][1]], "source", None) # None
          /\ PropsOf(queue[i][1]).type = "entry"

\* C16: on every visit of a route node whose endpoint is not public, the
\* applied flags are the node's own auth_required / admin_required where
\* present and the inherited flag otherwise, they equal the path's flags after
\* the override, and the entries queued below that visit carry the same flags.
AppliedIsPropagated ==
    \A i \in 1..Len(visits) :
        LET v == visits[i]
            props == PropsOf(v.id)
        IN (v.route /\ props.endpoint \notin {"/login", "/signup", "/signout"}) =>
            /\ v.applied.auth = IF "auth_required" \in DOMAIN props
                                THEN props.auth_required ELSE v.inherited.auth
            /\ v.applied.admin = IF "admin_required" \in DOMAIN props
                                 THEN props.admin_required ELSE v.inherited.admin
            /\ v.applied = v.flags
            /\ \A k \in 1..Len(queue) :
                  (Len(qpath[k]) >= 2 /\ SubSeq(qpath[k], 1, Len(qpath[k]) - 1) = v.path)
                      => heap[queue[k][2]] = v.applied

\* A route node that declares admin_required: false was visited with admin
\* and without auth inherited, and a child of it is queued without either.
AppliedIsPropagatedWitness ==
    /\ pc = "loop"
    /\ visits # <<>>
    /\ LET v == visits[Len(visits)] IN
       /\ v.route
       /\ PropsOf(v.id).endpoint = "/home"
       /\ "admin_required" \in DOMAIN PropsOf(v.id)
       /\ v.inherited.admin /\ ~v.inherited.auth
       /\ ~v.applied.admin /\ v.applied.auth
       /\ \E k \in 1..Len(queue) :
             /\ Len(qpath[k]) = Len(v.path) + 1
             /\ SubSeq(qpath[k], 1, Len(v.path)) = v.path
             /\ heap[queue[k][2]] = [auth |-> TRUE, admin |-> FALSE]

\* The target values of the records of ns from the i-th on that carry this id,
\* in input order.
RECURSIVE TargetsFrom(_, _, _)
TargetsFrom(ns, i, id) ==
    IF i > Len(ns) THEN <<>>
    ELSE LET n == ns[i]
             own == IF n.id # id \/ "target" \notin DOMAIN n THEN <<>>
                    ELSE IF n.target.list THEN n.target.v
                    ELSE IF n.target.v = None THEN <<>>
                    ELSE <<n.target.v>>
         IN own \o TargetsFrom(ns, i + 1, id)

\* C17: once build_graph has run, the adjacency list of every id is the
\* concatenation, in input order, of the target values of the records with
\* that id (list elements in list order, a scalar once, nothing for an absent
\* or falsy target, repeats kept), and the node index maps each id to the
\* last record with that id.
BuildGraphResult ==
    pc = "start" =>
        /\ DOMAIN node_map = {nodes[i].id : i \in 1..Len(nodes)}
        /\ DOMAIN children \subseteq DOMAIN node_map
        /\ \A id \in DOMAIN node_map :
              /\ Get(children, id, <<>>) = TargetsFrom(nodes, 1, id)
              /\ \E i \in 1..Len(nodes) :
                    /\ nodes[i].id = id
                    /\ node_map[id] = nodes[i]
                    /\ \A j \in (i + 1)..Len(nodes) : nodes[j].id # id

\* Two different records with the same id, both with targets and one with a
\* repeated child id, and a record with a falsy target, have been indexed.
BuildGraphResultWitness ==
    /\ pc = "start"
    /\ Len(nodes) = 3
    /\ nodes[1].id = "n1" /\ nodes[3].id = "n1" /\ nodes[2].id = "n2"
    /\ DOMAIN nodes[1] # DOMAIN nodes[3]
    /\ "target" \in DOMAIN nodes[2] /\ nodes[2].target.v = None
    /\ Get(children, "n1", <<>>) = <<"n2", "n2", "n1", "n2">>
    /\ "n2" \notin DOMAIN children

ExemptionOnlyOnRecord ==
    \A i \in 1..Len(visits) :
        LET v == visits[i]
            props == PropsOf(v.id)
        IN (v.route /\ props.endpoint \in {"/login", "/signup", "/signout"}) =>
            /\ v.applied = [auth |-> FALSE, admin |-> FALSE]
            /\ v.flags.auth = IF "auth_required" \in DOMAIN props
                              THEN props.auth_required ELSE v.inherited.auth
            /\ v.flags.admin = IF "admin_required" \in DOMAIN props
                               THEN props.admin_required ELSE v.inherited.admin
            /\ \A k \in 1..Len(queue) :
                  (Len(qpath[k]) >= 2 /\ SubSeq(qpath[k], 1, Len(qpath[k]) - 1) = v.path)
                      => heap[queue[k][2]] = v.flags
            /\ \A j \in 1..Len(visits) :
                  (Len(visits[j].path) >= 2 /\
                   SubSeq(visits[j].path, 1, Len(visits[j].path) - 1) = v.path)
                      => visits[j].inherited = v.flags

\* The /signout route was visited below a node that requires auth, declared
\* admin itself and was recorded open; a route node below it that declares
\* nothing was then recorded with auth and admin.
ExemptionOnlyOnRecordWitness ==
    \E i \in 1..Len(visits) : \E j \in 1..Len(visits) :
        /\ i < j
        /\ visits[i].route
        /\ PropsOf(visits[i].id).endpoint = "/signout"
        /\ visits[i].inherited = [auth |-> TRUE, admin |-> FALSE]
        /\ visits[i].applied = [auth |-> FALSE, admin |-> FALSE]
        /\ visits[j].path = Append(visits[i].path, visits[j].id)
        /\ visits[j].route
        /\ PropsOf(visits[j].id).endpoint = "/home"
        /\ "auth_required" \notin DOMAIN PropsOf(visits[j].id)
        /\ visits[j].applied = [auth |-> TRUE, admin |-> TRUE]
        /\ routes["/home"].auth /\ routes["/home"].admin

\* How often the id p lists the id c as a child.
Edges(p, c) ==
    LET kids == Get(children, p, <<>>)
    IN Cardinality({i \in 1..Len(kids) : kids[i] = c})

\* The number of edge paths from an entry node to id, repeated edges counted
\* apart and the empty path of an entry node included (acyclic graphs only).
RECURSIVE PathCount(_)
RECURSIVE PathCountVia(_, _)
PathCountVia(id, i) ==
    IF i > Len(node_order) THEN 0
    ELSE (IF Edges(node_order[i], id) = 0 THEN 0
          ELSE Edges(node_order[i], id) * PathCount(node_order[i]))
         + PathCountVia(id, i + 1)

PathCount(id) ==
    (IF \E i \in 1..Len(EntryNodes) : EntryNodes[i] = id THEN 1 ELSE 0)
        + PathCountVia(id, 1)

\* C20: when the traversal of an acyclic graph without dangling edges has
\* returned, each node was processed once per edge path from an entry node to
\* it; a node that no entry node reaches was never processed, and the routes
\* and the global flags come from reached nodes only.
OncePerPath ==
    (pc = "done" /\ Acyclic /\ NoDanglingEdge) =>
        /\ \A id \in DOMAIN node_map :
              /\ Cardinality({i \in 1..Len(visits) : visits[i].id = id}) = PathCount(id)
              /\ id \notin EntryReach => \A i \in 1..Len(visits) : visits[i].id # id
        /\ DOMAIN routes =
               {PropsOf(id).endpoint : id \in {x \in EntryReach : IsRoute(PropsOf(x))}}
        /\ global_flags.cors =
               (\E id \in EntryReach : "allowed_origins" \in DOMAIN PropsOf(id))
        /\ global_flags.logging =
               (\E id \in EntryReach : Get(PropsOf(id), "log_requests", FALSE))

\* A node reached by its own empty path and by a repeated edge was processed
\* three times, and a node that sets allowed_origins and log_requests was
\* never reached: no cors, no logging.
OncePerPathWitness ==
    /\ pc = "done"
    /\ Acyclic
    /\ NoDanglingEdge
    /\ \E id \in DOMAIN node_map :
          /\ \E p \in DOMAIN node_map : Edges(p, id) = 2
          /\ Cardinality({i \in 1..Len(visits) : visits[i].id = id}) = 3
    /\ \E id \in DOMAIN node_map \ EntryReach :
          /\ "allowed_origins" \in DOMAIN PropsOf(id)
          /\ Get(PropsOf(id), "log_requests", FALSE)
    /\ ~global_flags.cors
    /\ ~global_flags.logging

====
